---- MODULE Spec2Model ----
(***************************************************************************)
(* Model of py-cf-metadata: the revision-history engine                    *)
(* (classdefs.RevisionHistoryWrapper, classdefs.CFBase) and the table      *)
(* merger (xml_parsers.XMLProcessor.dict_update / process).                *)
(***************************************************************************)
EXTENDS Integers, Sequences, FiniteSets, TLC

\* ------------------------------------------------------------------------
\* Bounds of the model
\* ------------------------------------------------------------------------

\* largest numbered release that process() ingests
MaxRelease == 3

\* largest numbered release after which process() reaches 'current'
MaxLastRelease == 2

\* most entries of a table that process() reads entry by entry
MaxEntries == 3

\* latest modification date of a table, in days after 1900-01-01
MaxDate == 3

\* most characters of a line given to strip_comments
MaxLineLen == 3

\* entry ids that occur in the tables
Keys == {"k1", "k2"}

\* normalised field values; "" is the blank string
Vals == {"", "a"}

\* ------------------------------------------------------------------------
\* classdefs.py: sentinels and dataclasses
\* ------------------------------------------------------------------------

\* sentinel value for an unset version number (an open revision_end)
UNINIT_V == -1

\* sentinel value of the "current" version
CURRENT_V == 0

\* the wrapped dataclasses, up to the names of their fields:
\* StandardName; AreaType (= StandardizedRegion); StandardNameAlias
\* (= StandardNameAliasAMIP, StandardNameAliasGRIB)
DataClasses == {"StandardName", "AreaType", "StandardNameAlias"}

\* dc.fields(cls), in declaration order
Fields(cls) ==
    CASE cls = "StandardName"      -> <<"canonical_units", "description">>
      [] cls = "AreaType"          -> <<"description">>
      [] cls = "StandardNameAlias" -> <<"alias">>

\* fld.compare: description fields are declared compare=False
Compare(cls, key) == key # "description"

FieldSet(cls) == {Fields(cls)[i] : i \in 1..Len(Fields(cls))}

\* all instances of a dataclass
Records(cls) == [FieldSet(cls) -> Vals]

\* the compare=True fields of a class, and the others
IdentityFields(cls) == {f \in FieldSet(cls) : Compare(cls, f)}
MutableFields(cls) == {f \in FieldSet(cls) : ~Compare(cls, f)}

\* CFBase.update: the loop over dc.fields(self).  The result tells whether
\* ValueError was raised and what self holds when the loop stops.
RECURSIVE CFBase_update_from(_, _, _, _)
CFBase_update_from(cls, self, other, i) ==
    IF i > Len(Fields(cls))
    THEN [raised |-> FALSE, self |-> self]
    ELSE LET key == Fields(cls)[i] IN
         IF Compare(cls, key)
         THEN IF ~(self[key] = other[key])
              THEN [raised |-> TRUE, self |-> self]
              ELSE CFBase_update_from(cls, self, other, i + 1)
         ELSE CFBase_update_from(cls, [self EXCEPT ![key] = other[key]],
                                 other, i + 1)

\* CFBase.update as it would be if it copied the fields before it compared
CFBase_update_copy_first(cls, self, other) ==
    [raised |-> \E f \in FieldSet(cls) :
                    Compare(cls, f) /\ self[f] # other[f],
     self |-> [f \in FieldSet(cls) |->
                  IF Compare(cls, f) THEN self[f] ELSE other[f]]]

\* CFBase.update as it would be if it only compared and copied no field
CFBase_update_compare_only(cls, self, other) ==
    [raised |-> \E i \in 1..Len(Fields(cls)) :
                    /\ Compare(cls, Fields(cls)[i])
                    /\ self[Fields(cls)[i]] # other[Fields(cls)[i]],
     self |-> self]

CFBase_update(cls, self, other) == CFBase_update_from(cls, self, other, 1)

\* CFBase.is_empty: no field has a truthy (non-blank) value
CFBase_is_empty(cls, self) == \A f \in FieldSet(cls) : self[f] = ""

\* ------------------------------------------------------------------------
\* classdefs.py: RevisionHistoryWrapper
\* ------------------------------------------------------------------------

Last(s) == s[Len(s)]

SetLast(s, v) == [s EXCEPT ![Len(s)] = v]

\* Python's None / an optional value
None == <<>>
Some(x) == <<x>>

\* RevisionHistoryWrapper.from_obj
from_obj(wrapped_obj, start_v) ==
    [revisions |-> <<wrapped_obj>>,
     revision_start |-> <<start_v>>,
     revision_end |-> <<UNINIT_V>>]

\* end_revision as it would be if it closed a revision at current_v
end_revision_at_current(self, current_v) ==
    IF Last(self.revision_end) = UNINIT_V
    THEN [self EXCEPT !.revision_end = SetLast(@, current_v)]
    ELSE self

\* end_revision as it would be without the test for an open end
end_revision_unguarded(self, current_v) ==
    [self EXCEPT !.revision_end = SetLast(@, current_v - 1)]

\* RevisionHistoryWrapper.end_revision
end_revision(self, current_v) ==
    IF Last(self.revision_end) = UNINIT_V
    THEN [self EXCEPT !.revision_end = SetLast(@, current_v - 1)]
    ELSE self

\* new_revision as it would be without the call of end_revision
new_revision_keeps_open(self, new_rev, current_v, end_v) ==
    [revisions |-> Append(self.revisions, new_rev),
     revision_start |-> Append(self.revision_start, current_v),
     revision_end |-> Append(self.revision_end,
                             IF end_v = None THEN UNINIT_V ELSE end_v[1])]

\* RevisionHistoryWrapper.new_revision; end_v is None or Some(v)
new_revision(self, new_rev, current_v, end_v) ==
    LET s1 == IF Len(self.revision_end) > 0 /\ end_v = None
              THEN end_revision(self, current_v)
              ELSE self
    IN [revisions |-> Append(s1.revisions, new_rev),
        revision_start |-> Append(s1.revision_start, current_v),
        revision_end |-> Append(s1.revision_end,
                                IF end_v = None THEN UNINIT_V ELSE end_v[1])]

\* update as it would be if every observation started a revision
RHW_update_always_new(cls, self, x, current_v) ==
    new_revision(self, x, current_v, None)

\* RevisionHistoryWrapper.update
RHW_update(cls, self, x, current_v) ==
    LET current_rev_backup == Last(self.revisions)
        res == CFBase_update(cls, Last(self.revisions), x)
    IN IF res.raised
       THEN new_revision(
                [self EXCEPT !.revisions = SetLast(@, current_rev_backup)],
                x, current_v, None)
       ELSE [self EXCEPT !.revisions = SetLast(@, res.self)]

\* bisect.bisect_right(a, x) with lo, hi: the standard library's binary search
RECURSIVE bisect_right_from(_, _, _, _)
bisect_right_from(a, x, lo, hi) ==
    IF lo < hi
    THEN LET mid == (lo + hi) \div 2 IN
         IF x < a[mid + 1]
         THEN bisect_right_from(a, x, lo, mid)
         ELSE bisect_right_from(a, x, mid + 1, hi)
    ELSE lo

\* bisect.bisect_left: the insertion point before the entries equal to x
RECURSIVE bisect_left_from(_, _, _, _)
bisect_left_from(a, x, lo, hi) ==
    IF lo < hi
    THEN LET mid == (lo + hi) \div 2 IN
         IF a[mid + 1] < x
         THEN bisect_left_from(a, x, mid + 1, hi)
         ELSE bisect_left_from(a, x, lo, mid)
    ELSE lo

bisect_left(a, x) == bisect_left_from(a, x, 0, Len(a))

bisect_right(a, x) == bisect_right_from(a, x, 0, Len(a))

\* RevisionHistoryWrapper.filter_by_version
filter_by_version(self, version) ==
    LET not_current == (Last(self.revision_end) # UNINIT_V)
        idx == bisect_right(self.revision_start, version)
    IN IF idx = 0
       THEN None
       ELSE IF idx = Len(self.revision_start)
               /\ not_current /\ version > Last(self.revision_end)
            THEN None
            ELSE Some(self.revisions[idx])

\* to_struct as it would be if it kept the blank entries
CFBase_to_struct_keeps_blank(cls, self) == [f \in FieldSet(cls) |-> self[f]]

\* CFBase.to_struct: the non-blank fields
CFBase_to_struct(cls, self) ==
    [f \in {g \in FieldSet(cls) : self[g] # ""} |-> self[f]]

\* RevisionHistoryWrapper.to_struct: _rev_to_dict
rev_to_dict(cls, wrapped_obj, start, end) ==
    LET d == CFBase_to_struct(cls, wrapped_obj) @@ ("revision_start" :> start)
    IN IF end # UNINIT_V THEN ("revision_end" :> end) @@ d ELSE d

\* RevisionHistoryWrapper.to_struct
RHW_to_struct(cls, self) ==
    [i \in 1..Len(self.revisions) |->
        rev_to_dict(cls, self.revisions[i], self.revision_start[i],
                    self.revision_end[i])]

\* the default of a field that the constructor is not given:
\* canonical_units has default_factory "1", the other fields default ""
FieldDefault(cls, key) == IF key = "canonical_units" THEN "1" ELSE ""

\* CFBase.from_struct: cls(**d)
CFBase_from_struct(cls, d) ==
    [f \in FieldSet(cls) |->
        IF f \in DOMAIN d THEN d[f] ELSE FieldDefault(cls, f)]

\* RevisionHistoryWrapper.WrappedDataclass: the InitVar's default stays the
\* class attribute, and no __post_init__ stores what from_obj passes
WrappedDataclass == None

\* RevisionHistoryWrapper.from_struct: the loop over the descriptors from
\* descriptor i on.  wrapped is cls.WrappedDataclass, None or Some(class).
\* The result tells whether None.from_struct raised AttributeError.
RECURSIVE RHW_from_struct_from(_, _, _, _)
RHW_from_struct_from(wrapped, struct, obj, i) ==
    IF i > Len(struct)
    THEN [raised |-> FALSE, self |-> obj]
    ELSE LET d == struct[i]
             start_v == d["revision_start"]
             end_v == IF "revision_end" \in DOMAIN d
                      THEN d["revision_end"] ELSE UNINIT_V
             rest == [f \in DOMAIN d \ {"revision_start", "revision_end"}
                         |-> d[f]]
         IN IF wrapped = None
            THEN [raised |-> TRUE, self |-> obj]
            ELSE RHW_from_struct_from(
                     wrapped, struct,
                     new_revision(obj, CFBase_from_struct(wrapped[1], rest),
                                  start_v, Some(end_v)),
                     i + 1)

\* RevisionHistoryWrapper.from_struct
RHW_from_struct(wrapped, struct) ==
    RHW_from_struct_from(
        wrapped, struct,
        [revisions |-> <<>>, revision_start |-> <<>>, revision_end |-> <<>>],
        1)

\* the positions of a sequence that are kept by a filter, in order
RECURSIVE SelectIdx(_, _, _)
SelectIdx(s, keep, i) ==
    IF i > Len(s) THEN <<>>
    ELSE (IF keep[i] THEN <<s[i]>> ELSE <<>>) \o SelectIdx(s, keep, i + 1)

\* remove_empty_revisions as it would be if it filtered the records only
remove_empty_revisions_records_only(cls, self) ==
    LET keep == [i \in 1..Len(self.revisions) |->
                    ~CFBase_is_empty(cls, self.revisions[i])]
    IN [self EXCEPT !.revisions = SelectIdx(self.revisions, keep, 1)]

\* RevisionHistoryWrapper.remove_empty_revisions
remove_empty_revisions(cls, self) ==
    LET is_empty == [i \in 1..Len(self.revisions) |->
                        CFBase_is_empty(cls, self.revisions[i])]
        keep == [i \in 1..Len(self.revisions) |-> ~is_empty[i]]
    IN [revisions |-> SelectIdx(self.revisions, keep, 1),
        revision_start |-> SelectIdx(self.revision_start, keep, 1),
        revision_end |-> SelectIdx(self.revision_end, keep, 1)]

\* is_empty as it would be if no history counted as empty
RHW_is_empty_never(self) == FALSE

\* RevisionHistoryWrapper.is_empty
RHW_is_empty(self) == Len(self.revisions) = 0

\* ------------------------------------------------------------------------
\* xml_parsers.py: XMLProcessor
\* ------------------------------------------------------------------------

VARIABLES
    DataClass,       \* XMLProcessor.DataClass
    rev_history_d,   \* XMLProcessor.rev_history_d: key -> history
    key_order,       \* the insertion order of rev_history_d's keys
    update_d,        \* process(): the snapshot handed to dict_update last
    update_version,  \* process(): the release handed to dict_update last
    pc,              \* position of process(): loop, current, done
    last_op,         \* the operation that ran last
    root,            \* process(): the entries of the table read last
    warned,          \* the warnings that the operation that ran last emitted
    rev_dates,       \* RevisionDateList._d: <<version, date>> in dict order
    main_pc,         \* position of main(): run, aborted, done
    written,         \* main(): the output files written, in order
    version_dirs,    \* get_versions: the directory names that scandir gave
    calls,           \* process(): the releases handed to dict_update so far
    strip_pc,        \* position of strip_comments: start, while, done
    strip_line,      \* strip_comments: s[i], the line it works on
    strip_j,         \* strip_comments: j
    strip_out        \* strip_comments: the line it puts back into s[i]

vars == <<DataClass, rev_history_d, key_order, update_d, update_version,
          pc, last_op, root, warned, rev_dates, main_pc, written,
          version_dirs, calls, strip_pc, strip_line, strip_j, strip_out>>

\* the variables of strip_comments
strip_vars == <<strip_pc, strip_line, strip_j, strip_out>>

\* the variables of main() and of the discovery of releases
main_vars == <<main_pc, written>>

order_vars == <<version_dirs, calls>>

\* the empty dict
EmptyDict == [k \in {} |-> None]

\* all snapshots of the table of a dataclass
Snapshots(cls) == UNION {[ks -> Records(cls)] : ks \in SUBSET Keys}

\* the sequences that list every element of a set once: the orders in which
\* a Python set can be iterated
RECURSIVE Orders(_)
Orders(S) ==
    IF S = {} THEN {<<>>}
    ELSE UNION {{<<x>> \o t : t \in Orders(S \ {x})} : x \in S}

\* XMLProcessor.dict_update: the map afterwards
dict_update(cls, d, upd, version) ==
    LET d_keys == DOMAIN d
        update_keys == DOMAIN upd
    IN [k \in d_keys \cup update_keys |->
          IF k \in d_keys \cap update_keys
          THEN RHW_update(cls, d[k], upd[k], version)
          ELSE IF k \in d_keys \ update_keys
               THEN end_revision(d[k], version)
               ELSE from_obj(upd[k], version)]

\* XMLProcessor.dict_update: the keys it inserts, update_keys - d_keys
dict_update_added(d, upd) == DOMAIN upd \ DOMAIN d

\* dict_update's warnings as they would be without the test for 'current'
dict_update_warnings_any_release(d, upd, version) ==
    {<<"current", k>> : k \in dict_update_added(d, upd)}

\* XMLProcessor.dict_update: the warnings of its third loop.  The second
\* warning needs a key of update_keys - d_keys that is in rev_history_d; the
\* keys are a set and the loop inserts each once, so there is none.
dict_update_warnings(d, upd, version) ==
    {<<"current", k>> : k \in {x \in dict_update_added(d, upd) :
                                  version = CURRENT_V}}
    \cup {<<"multiple", k>> : k \in {x \in dict_update_added(d, upd) :
                                      x \in DOMAIN d}}

Init ==
    /\ DataClass \in DataClasses
    /\ rev_history_d = EmptyDict
    /\ key_order = <<>>
    /\ update_d = EmptyDict
    /\ update_version = UNINIT_V
    /\ pc = "loop"
    /\ last_op = "init"
    /\ root = <<>>
    /\ warned = {}
    /\ rev_dates = <<>>
    /\ main_pc = "run"
    /\ written = <<>>
    /\ version_dirs = <<>>
    /\ calls = <<>>
    /\ strip_pc = "start"
    /\ strip_line = <<>>
    /\ strip_j = 1
    /\ strip_out = <<>>

\* one call of dict_update by the loop of process() or by a second caller.
\* The date list that process() fills in the same iteration shares no data
\* with the map and is modelled by AddModifiedDate.
CallDictUpdate(upd, version) ==
    /\ rev_history_d' = dict_update(DataClass, rev_history_d, upd, version)
    /\ \E o \in Orders(dict_update_added(rev_history_d, upd)) :
           key_order' = key_order \o o
    /\ warned' = dict_update_warnings(rev_history_d, upd, version)
    /\ update_d' = upd
    /\ update_version' = version

\* process(): one iteration of the loop for a numbered release
ProcessNumbered ==
    /\ pc = "loop"
    /\ \E v_int \in 1..MaxRelease : \E upd \in Snapshots(DataClass) :
          /\ v_int > update_version
          /\ CallDictUpdate(upd, v_int)
    /\ last_op' = "numbered"
    /\ UNCHANGED <<DataClass, pc, root, rev_dates, main_vars, order_vars,
                   strip_vars>>

\* process(): the last iteration of the loop, for 'current'
ProcessCurrent ==
    /\ pc = "loop"
    /\ update_version # UNINIT_V
    /\ update_version <= MaxLastRelease
    /\ \E upd \in Snapshots(DataClass) : CallDictUpdate(upd, CURRENT_V)
    /\ last_op' = "current"
    /\ pc' = "current"
    /\ UNCHANGED <<DataClass, root, rev_dates, main_vars, order_vars,
                   strip_vars>>

\* dict_update called again with the snapshot and release ingested last
DictUpdateAgain ==
    /\ pc \in {"loop", "current"}
    /\ last_op \in {"numbered", "current"}
    /\ CallDictUpdate(update_d, update_version)
    /\ last_op' = "again"
    /\ UNCHANGED <<DataClass, pc, root, rev_dates, main_vars, order_vars,
                   strip_vars>>

\* sorted(): the ascending order of a set of keys (keys are compared as
\* strings; k1 < k2)
KeyLess(a, b) == a = "k1" /\ b = "k2"

SortedKeys(S) ==
    CHOOSE o \in Orders(S) :
        \A i, j \in 1..Len(o) : i < j => KeyLess(o[i], o[j])

\* process(): the final pass, after which the locals of the loop are gone
Finalize ==
    /\ pc = "current"
    /\ LET pruned == [k \in DOMAIN rev_history_d |->
                         remove_empty_revisions(DataClass, rev_history_d[k])]
           kept == {k \in DOMAIN pruned : ~RHW_is_empty(pruned[k])}
       IN /\ rev_history_d' = [k \in kept |-> pruned[k]]
          /\ key_order' = SortedKeys(kept)
    /\ update_d' = EmptyDict
    /\ update_version' = UNINIT_V
    /\ pc' = "done"
    /\ last_op' = "finalize"
    /\ warned' = {}
    /\ UNCHANGED <<DataClass, root, rev_dates, main_vars, order_vars,
                   strip_vars>>

Next ==
    \/ ProcessNumbered
    \/ ProcessCurrent
    \/ DictUpdateAgain
    \/ Finalize

Spec == Init /\ [][Next]_vars

\* dict_update driven with numbered releases only
NextNumbered ==
    \/ ProcessNumbered
    \/ DictUpdateAgain

SpecNumbered == Init /\ [][NextNumbered]_vars

\* the == and != that @dc.dataclass generates: the tuples of the fields
\* declared without compare=False are compared
dataclass_eq(cls, a, b) == \A f \in IdentityFields(cls) : a[f] = b[f]

\* an entry of a table: its id and the record built from its elements
Entries(cls) == [id : Keys, val : Records(cls)]

Tables(cls) == UNION {[1..n -> Entries(cls)] : n \in 0..MaxEntries}

\* process(): the loop over the entries of one table, from entry i on, with
\* update_d and the warnings so far; the later record of a key replaces the
\* earlier one
RECURSIVE read_entries(_, _, _, _, _)
read_entries(cls, entries, i, upd, w) ==
    IF i > Len(entries) THEN [update_d |-> upd, warned |-> w]
    ELSE LET k == entries[i].id
             val == entries[i].val
             differs == k \in DOMAIN upd /\ ~dataclass_eq(cls, upd[k], val)
         IN read_entries(cls, entries, i + 1,
                [x \in DOMAIN upd \cup {k} |-> IF x = k THEN val ELSE upd[x]],
                IF differs THEN w \cup {<<"multiple", k>>} ELSE w)

\* process(): the first iteration of the loop, the table read entry by entry
ProcessTable ==
    /\ pc = "loop"
    /\ update_version = UNINIT_V
    /\ \E v_int \in 1..MaxRelease : \E entries \in Tables(DataClass) :
          LET read == read_entries(DataClass, entries, 1, EmptyDict, {})
          IN /\ root' = entries
             /\ rev_history_d' = dict_update(DataClass, rev_history_d,
                                             read.update_d, v_int)
             /\ \E o \in Orders(dict_update_added(rev_history_d,
                                                   read.update_d)) :
                    key_order' = key_order \o o
             /\ warned' = read.warned \cup
                    dict_update_warnings(rev_history_d, read.update_d, v_int)
             /\ update_d' = read.update_d
             /\ update_version' = v_int
    /\ last_op' = "table"
    /\ UNCHANGED <<DataClass, pc, rev_dates, main_vars, order_vars,
                   strip_vars>>

SpecRead == Init /\ [][ProcessTable]_vars

\* ------------------------------------------------------------------------
\* classdefs.py: RevisionDateList.  A date is a number of days after
\* 1900-01-01; _d is the sequence of its <<key, date>> items in dict order.
\* ------------------------------------------------------------------------

\* datetime.date(1900,1,1)
DummyDate == 0

\* the dates that the tables carry
Dates == 1..MaxDate

\* datetime.date.today(): not before the date of any table
Today == MaxDate

\* v_cleanup: the i-th entry of v_strs when every release has a directory
v_str_at(i) == IF i <= MaxRelease THEN ToString(i) ELSE "current"

\* the position in v_strs of a key of _d
v_index(key) == CHOOSE i \in 1..(MaxRelease + 1) : v_str_at(i) = key

dict_keys(d) == [i \in 1..Len(d) |-> d[i][1]]

dict_values(d) == [i \in 1..Len(d) |-> d[i][2]]

\* d[k] = v on a dict: a key that is present keeps its position
dict_setitem(d, k, v) ==
    IF \E i \in 1..Len(d) : d[i][1] = k
    THEN [i \in 1..Len(d) |-> IF d[i][1] = k THEN <<k, v>> ELSE d[i]]
    ELSE Append(d, <<k, v>>)

\* RevisionDateList.add_modified_date_from_xml: the date it stores for the
\* elements last_modified and date of the table (None when absent).
\* is_current_v is current_version == _CURRENT_V; strptime is taken to
\* succeed.
modified_date(last_modified, date, is_current_v) ==
    LET mod_dt0 == IF is_current_v THEN Some(Today) ELSE None
        mod_dt1 == IF last_modified # None /\ mod_dt0 = None
                   THEN last_modified ELSE mod_dt0
        mod_dt2 == IF date # None /\ mod_dt1 = None THEN date ELSE mod_dt1
    IN [warned |-> mod_dt2 = None,
        mod_dt |-> IF mod_dt2 = None THEN DummyDate ELSE mod_dt2[1]]

IsNonDecreasing(s) == \A i, j \in 1..Len(s) : i < j => s[i] <= s[j]

\* version_from_date as it would be without the test of the order
version_from_date_unchecked(d, dt) ==
    LET keys == dict_keys(d)
        dts == dict_values(d)
        idx == bisect_right(dts, dt)
    IN IF Len(keys) = 0 /\ idx = 0
       THEN [raised |-> "IndexError", result |-> None]
       ELSE IF idx = 0
       THEN [raised |-> "", result |-> Some(keys[1])]
       ELSE [raised |-> "", result |-> Some(keys[idx])]

\* version_from_date as it would be if it returned keys[idx]
version_from_date_next(d, dt) ==
    LET keys == dict_keys(d)
        dts == dict_values(d)
        idx == bisect_right(dts, dt)
    IN IF ~IsNonDecreasing(dts)
       THEN [raised |-> "ValueError", result |-> None]
       ELSE IF Len(keys) = 0 /\ idx = 0
       THEN [raised |-> "IndexError", result |-> None]
       ELSE IF idx = 0 \/ idx = Len(keys)
       THEN [raised |-> "", result |-> Some(keys[1])]
       ELSE [raised |-> "", result |-> Some(keys[idx + 1])]

\* RevisionDateList.version_from_date; sorted(dts) equals dts exactly when
\* dts is non-decreasing, and indices count from 1 here
version_from_date(d, dt) ==
    LET keys == dict_keys(d)
        dts == dict_values(d)
        idx == bisect_right(dts, dt)
    IN IF ~IsNonDecreasing(dts)
       THEN [raised |-> "ValueError", result |-> None]
       ELSE IF Len(keys) = 0 /\ idx = 0
       THEN [raised |-> "IndexError", result |-> None]
       ELSE IF idx = 0
       THEN [raised |-> "", result |-> Some(keys[1])]
       ELSE [raised |-> "", result |-> Some(keys[idx])]

\* process(): add_modified_date_from_xml for the table of the next release
\* of v_strs that has one.  process() passes v_str, a string, so that
\* current_version == _CURRENT_V is false also for 'current'.
AddModifiedDate ==
    /\ pc = "loop"
    /\ \E i \in 1..(MaxRelease + 1) :
       \E last_modified \in {None} \cup {Some(x) : x \in Dates} :
       \E date \in {None} \cup {Some(x) : x \in Dates} :
          LET m == modified_date(last_modified, date, FALSE)
          IN /\ rev_dates # <<>> => i > v_index(Last(rev_dates)[1])
             /\ rev_dates' = dict_setitem(rev_dates, v_str_at(i), m.mod_dt)
             /\ warned' = IF m.warned THEN {<<"no date", v_str_at(i)>>}
                          ELSE {}
    /\ last_op' = "add_date"
    /\ UNCHANGED <<DataClass, rev_history_d, key_order, update_d,
                   update_version, pc, root, main_vars, order_vars,
                   strip_vars>>

SpecDates == Init /\ [][AddModifiedDate]_vars

\* ------------------------------------------------------------------------
\* update.py: main
\* ------------------------------------------------------------------------

\* the category names of the six tables, in the order main() handles them
TableNames ==
    <<"cf-standard-names", "cf-standard-name-aliases",
      "cf-standard-name-aliases-amip", "cf-standard-name-aliases-grib",
      "area-type-table", "standardized-region-list">>

\* what process() leaves in a processor for write_json: the keys of its map
ProcessResults == SUBSET Keys

\* main(): process() returns for the next table and write_json writes its
\* file
MainTable ==
    /\ main_pc = "run"
    /\ Len(written) < Len(TableNames)
    /\ \E result \in ProcessResults :
          written' = Append(written, <<TableNames[Len(written) + 1], result>>)
    /\ main_pc' = IF Len(written') = Len(TableNames) THEN "done" ELSE "run"
    /\ last_op' = "write_json"
    /\ UNCHANGED <<DataClass, rev_history_d, key_order, update_d,
                   update_version, pc, root, warned, rev_dates, order_vars,
                   strip_vars>>

\* main(): process() raises for the next table (a directory or file that is
\* missing, XML that does not parse, a date or a directory name that does
\* not convert); nothing catches it and the run ends
MainProcessFails ==
    /\ main_pc = "run"
    /\ Len(written) < Len(TableNames)
    /\ main_pc' = "aborted"
    /\ last_op' = "process_failed"
    /\ UNCHANGED <<DataClass, rev_history_d, key_order, update_d,
                   update_version, pc, root, warned, rev_dates, written,
                   order_vars, strip_vars>>

NextMain ==
    \/ MainTable
    \/ MainProcessFails

SpecMain == Init /\ [][NextMain]_vars

\* ------------------------------------------------------------------------
\* xml_parsers.py: the discovery of the releases and the order of the loop
\* ------------------------------------------------------------------------

\* names of the directories of a table: releases 1, 2 and 10, release 1
\* written with a leading zero, and the head
DirNames == {"1", "2", "10", "01", "current"}

\* int(d) for a directory name
int_of(d) ==
    CASE d = "1" -> 1 [] d = "01" -> 1 [] d = "2" -> 2 [] d = "10" -> 10

\* os.scandir: the names of a directory, each once, in any order
DirLists ==
    {l \in UNION {[1..n -> DirNames] : n \in 0..Cardinality(DirNames)} :
        \A i, j \in 1..Len(l) : i # j => l[i] # l[j]}

IntLess(a, b) == a < b

\* XMLProcessor.v_cleanup
v_cleanup(version_strs) ==
    LET rest == SelectSeq(version_strs, LAMBDA d : d # "current")
        version_ints == SortSeq([i \in 1..Len(rest) |-> int_of(rest[i])],
                                IntLess)
    IN IF Len(rest) = Len(version_strs)
       THEN [raised |-> "AssertionError", version_strs |-> <<>>,
             max_version |-> UNINIT_V]
       ELSE IF Len(version_ints) = 0
       THEN [raised |-> "ValueError", version_strs |-> <<>>,
             max_version |-> UNINIT_V]
       ELSE [raised |-> "",
             version_strs |-> [i \in 1..Len(version_ints) |->
                                  ToString(version_ints[i])] \o <<"current">>,
             max_version |-> CHOOSE m \in {version_ints[i] :
                                             i \in 1..Len(version_ints)} :
                                \A i \in 1..Len(version_ints) :
                                    version_ints[i] <= m]

\* process(): get_versions lists the directories and v_cleanup orders them
GetVersions ==
    /\ pc = "loop"
    /\ last_op = "init"
    /\ \E dirs \in DirLists :
          /\ version_dirs' = dirs
          /\ pc' = IF v_cleanup(dirs).raised # "" THEN "failed" ELSE "loop"
    /\ last_op' = "get_versions"
    /\ UNCHANGED <<DataClass, rev_history_d, key_order, update_d,
                   update_version, root, warned, rev_dates, main_vars, calls,
                   strip_vars>>

\* process(): the head of one iteration of the loop, for the next entry of
\* v_strs: v_int is computed, the file of directory v_str must exist, and
\* the table is handed to dict_update with v_int (the merge itself is
\* ProcessNumbered and ProcessCurrent)
ProcessVersion ==
    /\ pc = "loop"
    /\ last_op \in {"get_versions", "version"}
    /\ LET v_strs == v_cleanup(version_dirs).version_strs
           v_str == v_strs[Len(calls) + 1]
           v_int == IF v_str = "current" THEN CURRENT_V ELSE int_of(v_str)
       IN IF \E i \in 1..Len(version_dirs) : version_dirs[i] = v_str
          THEN /\ calls' = Append(calls, v_int)
               /\ pc' = IF v_str = "current" THEN "current" ELSE "loop"
          ELSE /\ calls' = calls
               /\ pc' = "failed"
    /\ last_op' = "version"
    /\ UNCHANGED <<DataClass, rev_history_d, key_order, update_d,
                   update_version, root, warned, rev_dates, main_vars,
                   version_dirs, strip_vars>>

NextVersions ==
    \/ GetVersions
    \/ ProcessVersion

SpecVersions == Init /\ [][NextVersions]_vars

\* ------------------------------------------------------------------------
\* util.py: strip_comments on one line.  A line is a sequence of characters
\* and the delimiter is the one character "#".
\* ------------------------------------------------------------------------

\* the character "
Quote == "\""

Chars == {Quote, "#", "x"}

delimiter == "#"

Lines == UNION {[1..n -> Chars] : n \in 0..MaxLineLen}

\* most values of j that the model follows: two beyond the number of parts
\* of the longest line
MaxJ == MaxLineLen + 3

\* str.split(delimiter), from character i on, cur being the part under way
RECURSIVE split_from(_, _, _, _)
split_from(line, sep, i, cur) ==
    IF i > Len(line) THEN <<cur>>
    ELSE IF line[i] = sep
    THEN <<cur>> \o split_from(line, sep, i + 1, <<>>)
    ELSE split_from(line, sep, i + 1, Append(cur, line[i]))

split(line, sep) == split_from(line, sep, 1, <<>>)

\* ss.count('"')
count_quotes(ss) == Cardinality({i \in 1..Len(ss) : ss[i] = Quote})

\* sum(s_counts[:n]): a slice ends at the end of the list at the latest
RECURSIVE sum_slice(_, _)
sum_slice(s_counts, n) ==
    IF n <= 0 THEN 0
    ELSE IF n > Len(s_counts) THEN sum_slice(s_counts, Len(s_counts))
    ELSE s_counts[n] + sum_slice(s_counts, n - 1)

\* delimiter.join(s_parts[:n])
RECURSIVE join_slice(_, _, _)
join_slice(sep, s_parts, n) ==
    IF n <= 0 \/ Len(s_parts) = 0 THEN <<>>
    ELSE IF n > Len(s_parts) THEN join_slice(sep, s_parts, Len(s_parts))
    ELSE IF n = 1 THEN s_parts[1]
    ELSE join_slice(sep, s_parts, n - 1) \o <<sep>> \o s_parts[n]

s_counts_of(line) ==
    LET s_parts == split(line, delimiter)
    IN [i \in 1..Len(s_parts) |-> count_quotes(s_parts[i])]

\* strip_comments: the body of the loop over the lines, up to the while loop
StripStart ==
    /\ strip_pc = "start"
    /\ \E line \in Lines :
          /\ strip_line' = line
          /\ IF Len(line) > 0 /\ line[1] = delimiter
             THEN strip_out' = <<>> /\ strip_pc' = "done"
             ELSE strip_out' = strip_out /\ strip_pc' = "while"
    /\ strip_j' = 1
    /\ last_op' = "strip_start"
    /\ UNCHANGED <<DataClass, rev_history_d, key_order, update_d,
                   update_version, pc, root, warned, rev_dates, main_vars,
                   order_vars>>

\* strip_comments: the test of the while loop is true and j += 1 runs
StripWhileStep ==
    /\ strip_pc = "while"
    /\ sum_slice(s_counts_of(strip_line), strip_j) % 2 # 0
    /\ strip_j < MaxJ
    /\ strip_j' = strip_j + 1
    /\ last_op' = "strip_while"
    /\ UNCHANGED <<DataClass, rev_history_d, key_order, update_d,
                   update_version, pc, root, warned, rev_dates, main_vars,
                   order_vars, strip_pc, strip_line, strip_out>>

\* strip_comments: the test of the while loop is false and the line is cut
StripWhileExit ==
    /\ strip_pc = "while"
    /\ sum_slice(s_counts_of(strip_line), strip_j) % 2 = 0
    /\ strip_out' = join_slice(delimiter, split(strip_line, delimiter),
                               strip_j)
    /\ strip_pc' = "done"
    /\ last_op' = "strip_exit"
    /\ UNCHANGED <<DataClass, rev_history_d, key_order, update_d,
                   update_version, pc, root, warned, rev_dates, main_vars,
                   order_vars, strip_line, strip_j>>

NextStrip ==
    \/ StripStart
    \/ StripWhileStep
    \/ StripWhileExit

SpecStrip == Init /\ [][NextStrip]_vars

\* ------------------------------------------------------------------------
\* Properties
\* ------------------------------------------------------------------------

\* revision i of a history has no concrete end
IsOpen(h, i) == h.revision_end[i] = UNINIT_V

LastOpen(h) == IsOpen(h, Len(h.revision_end))

StartIncreasing(h) ==
    \A i \in 1..(Len(h.revision_start) - 1) :
        h.revision_start[i] < h.revision_start[i + 1]

OnlyLastOpen(h) ==
    \A i \in 1..(Len(h.revision_end) - 1) : ~IsOpen(h, i)

\* two records differ in a compare=True field
IdentityDiffers(cls, a, b) == \E f \in IdentityFields(cls) : a[f] # b[f]

\* the step is a call dict_update(update_d', update_version')
DictUpdateStep == last_op' \in {"numbered", "current", "again"}

\* the step is a call of dict_update with a numbered release
NumberedStep == DictUpdateStep /\ update_version' >= 1

\* C1: after every prefix of a sequence of snapshots ingested at strictly
\* increasing numbered releases, every history has strictly increasing
\* revision_start and no revision but the last has an open end.
C1_StartIncreasingOnlyLastOpen ==
    \A k \in DOMAIN rev_history_d :
        /\ StartIncreasing(rev_history_d[k])
        /\ OnlyLastOpen(rev_history_d[k])

\* a history of three revisions, the first two closed
C1_Witness ==
    \E k \in DOMAIN rev_history_d :
        /\ Len(rev_history_d[k].revisions) >= 3
        /\ LastOpen(rev_history_d[k])

\* C2: a key whose last revision is open, observed at numbered release r with
\* a record that differs in an identity attribute, gains exactly one
\* revision: the open revision keeps its record and gets end = r - 1, and
\* the incoming record is appended with start = r and an open end.
C2_Branch ==
    [][NumberedStep =>
        \A k \in DOMAIN rev_history_d \cap DOMAIN update_d' :
            LET h == rev_history_d[k] IN
            (LastOpen(h) /\ IdentityDiffers(DataClass, Last(h.revisions),
                                            update_d'[k]))
            => /\ rev_history_d'[k].revisions
                      = Append(h.revisions, update_d'[k])
               /\ rev_history_d'[k].revision_start
                      = Append(h.revision_start, update_version')
               /\ rev_history_d'[k].revision_end
                      = Append(SetLast(h.revision_end, update_version' - 1),
                               UNINIT_V)
    ]_vars

\* a key observed at this release whose previous revision was closed by the
\* observation: it ends right before the release and differs in identity
C2_Witness ==
    /\ last_op = "numbered"
    /\ \E k \in DOMAIN rev_history_d \cap DOMAIN update_d :
          LET h == rev_history_d[k]
              n == Len(h.revisions) IN
          /\ n >= 2
          /\ h.revision_start[n] = update_version
          /\ h.revision_end[n - 1] = update_version - 1
          /\ IdentityDiffers(DataClass, h.revisions[n - 1], h.revisions[n])
          /\ \E f \in MutableFields(DataClass) :
                h.revisions[n - 1][f] # h.revisions[n][f]

\* C3: a key whose last revision is open, observed with a record equal in
\* all identity attributes, keeps its number of revisions, every
\* revision_start and revision_end and the identity attributes of the last
\* revision; the mutable attributes of the last revision become the incoming
\* record's.
C3_MergeInPlace ==
    [][DictUpdateStep =>
        \A k \in DOMAIN rev_history_d \cap DOMAIN update_d' :
            LET h == rev_history_d[k]
                n == Len(h.revisions) IN
            (LastOpen(h) /\ ~IdentityDiffers(DataClass, h.revisions[n],
                                             update_d'[k]))
            => /\ Len(rev_history_d'[k].revisions) = n
               /\ rev_history_d'[k].revision_start = h.revision_start
               /\ rev_history_d'[k].revision_end = h.revision_end
               /\ \A f \in IdentityFields(DataClass) :
                      rev_history_d'[k].revisions[n][f] = h.revisions[n][f]
               /\ \A f \in MutableFields(DataClass) :
                      rev_history_d'[k].revisions[n][f] = update_d'[k][f]
    ]_vars

\* a key observed at this release whose open revision started at an earlier
\* release and holds a non-blank mutable attribute of the observed record
C3_Witness ==
    /\ last_op = "numbered"
    /\ \E k \in DOMAIN rev_history_d \cap DOMAIN update_d :
          LET h == rev_history_d[k] IN
          /\ LastOpen(h)
          /\ Last(h.revision_start) < update_version
          /\ \E f \in MutableFields(DataClass) :
                /\ update_d[k][f] # ""
                /\ Last(h.revisions)[f] = update_d[k][f]

\* C4: a snapshot at numbered release r that omits a key leaves the key's
\* history in the map with the same revisions; an open last revision gets
\* end = r - 1, a closed one is not changed.
C4_Retirement ==
    [][NumberedStep =>
        \A k \in DOMAIN rev_history_d \ DOMAIN update_d' :
            LET h == rev_history_d[k] IN
            /\ k \in DOMAIN rev_history_d'
            /\ rev_history_d'[k].revisions = h.revisions
            /\ rev_history_d'[k].revision_start = h.revision_start
            /\ rev_history_d'[k].revision_end =
                   IF LastOpen(h)
                   THEN SetLast(h.revision_end, update_version' - 1)
                   ELSE h.revision_end
    ]_vars

\* a key omitted by this release and closed by it, next to a key that this
\* release omits and that an earlier release had closed
C4_Witness ==
    /\ last_op = "numbered"
    /\ \E k \in DOMAIN rev_history_d \ DOMAIN update_d :
          Last(rev_history_d[k].revision_end) = update_version - 1
    /\ \E k \in DOMAIN rev_history_d \ DOMAIN update_d :
          /\ ~LastOpen(rev_history_d[k])
          /\ Last(rev_history_d[k].revision_end) < update_version - 1


\* the releases a lookup is made for
Queries == 0..(MaxRelease + 1)

\* C5: a key whose last revision is closed, observed at a later release r,
\* gets a new open revision starting at r holding the incoming record,
\* whatever the record; the closed revisions are not changed.
C5_Reappearance ==
    [][(last_op' = "numbered") =>
        \A k \in DOMAIN rev_history_d \cap DOMAIN update_d' :
            LET h == rev_history_d[k] IN
            ~LastOpen(h)
            => /\ rev_history_d'[k].revisions
                      = Append(h.revisions, update_d'[k])
               /\ rev_history_d'[k].revision_start
                      = Append(h.revision_start, update_version')
               /\ rev_history_d'[k].revision_end
                      = Append(h.revision_end, UNINIT_V)
    ]_vars

\* C6: where revision i is closed with end e and revision i+1 starts at
\* s > e + 1, filter_by_version(r) is None for every r with e < r < s.
C6_GapLookupNone ==
    \A k \in DOMAIN rev_history_d :
        LET h == rev_history_d[k] IN
        \A i \in 1..(Len(h.revisions) - 1) : \A r \in Queries :
            (/\ ~IsOpen(h, i)
             /\ h.revision_start[i + 1] > h.revision_end[i] + 1
             /\ h.revision_end[i] < r
             /\ r < h.revision_start[i + 1])
            => filter_by_version(h, r) = None

\* C7: filter_by_version(r) is None for r before the first revision_start
\* and for r after the end of a closed last revision, and is the record of
\* revision i whenever start_i <= r and end_i is open or r <= end_i.
C7_LookupOutsideGaps ==
    \A k \in DOMAIN rev_history_d :
        LET h == rev_history_d[k] IN
        \A r \in Queries :
            /\ r < h.revision_start[1] => filter_by_version(h, r) = None
            /\ (~LastOpen(h) /\ r > Last(h.revision_end))
                   => filter_by_version(h, r) = None
            /\ \A i \in 1..Len(h.revisions) :
                   (/\ h.revision_start[i] <= r
                    /\ (IsOpen(h, i) \/ r <= h.revision_end[i]))
                   => filter_by_version(h, r) = Some(h.revisions[i])

\* a closed history of two different records: lookups before it and after
\* it give None, lookups at the two starts give the two records
C7_Witness ==
    \E k \in DOMAIN rev_history_d :
        LET h == rev_history_d[k] IN
        /\ Len(h.revisions) = 2
        /\ ~LastOpen(h)
        /\ h.revisions[1] # h.revisions[2]
        /\ filter_by_version(h, h.revision_start[1] - 1) = None
        /\ filter_by_version(h, Last(h.revision_end) + 1) = None
        /\ filter_by_version(h, h.revision_start[1]) = Some(h.revisions[1])
        /\ filter_by_version(h, h.revision_start[2]) = Some(h.revisions[2])

\* C8: after process() has ingested the numbered releases and then the head
\* snapshot, every history has strictly increasing revision_start and at
\* most its last revision open.
C8_HeadOrderedLast ==
    (pc = "current") =>
        \A k \in DOMAIN rev_history_d :
            /\ StartIncreasing(rev_history_d[k])
            /\ OnlyLastOpen(rev_history_d[k])

\* C9: the ingestion of the head snapshot closes the open last revision of
\* every key the head snapshot omits: its end is not the open sentinel and
\* its descriptor has a revision_end field.
C9_HeadRetirement ==
    [][(last_op' = "current") =>
        \A k \in DOMAIN rev_history_d \ DOMAIN update_d' :
            LastOpen(rev_history_d[k])
            => /\ ~LastOpen(rev_history_d'[k])
               /\ "revision_end" \in
                      DOMAIN Last(RHW_to_struct(DataClass, rev_history_d'[k]))
    ]_vars

\* C10: dict_update called again with the snapshot and the release ingested
\* last leaves the map as it is: keys, their order, revisions, starts, ends.
C10_Idempotent ==
    [][(last_op' = "again") =>
        /\ rev_history_d' = rev_history_d
        /\ key_order' = key_order
    ]_vars

\* the second call has run on a map with a key the snapshot observes and a
\* key with several revisions that the snapshot omits
C10_Witness ==
    /\ last_op = "again"
    /\ \E k \in DOMAIN rev_history_d : k \in DOMAIN update_d
    /\ \E k \in DOMAIN rev_history_d \ DOMAIN update_d :
          Len(rev_history_d[k].revisions) >= 2

\* C11: for every history produced by ingestion,
\* from_struct(to_struct(h)) completes without error and gives the same
\* records, starts and ends.
C11_RoundTrip ==
    \A k \in DOMAIN rev_history_d :
        LET h == rev_history_d[k]
            res == RHW_from_struct(WrappedDataclass,
                                   RHW_to_struct(DataClass, h))
        IN /\ ~res.raised
           /\ res.self = h

\* the attributes of a record that are not blank
NonBlank(cls, rec) == {f \in FieldSet(cls) : rec[f] # ""}

\* C12: to_struct gives one descriptor per revision, in order; a descriptor
\* holds exactly the non-blank attributes of the record and revision_start,
\* and revision_end if and only if the revision's end is not the open
\* sentinel.
C12_Descriptors ==
    \A k \in DOMAIN rev_history_d :
        LET h == rev_history_d[k]
            s == RHW_to_struct(DataClass, h)
        IN /\ Len(s) = Len(h.revisions)
           /\ \A i \in 1..Len(h.revisions) :
                 /\ DOMAIN s[i] =
                        NonBlank(DataClass, h.revisions[i])
                        \cup {"revision_start"}
                        \cup (IF IsOpen(h, i) THEN {} ELSE {"revision_end"})
                 /\ \A f \in NonBlank(DataClass, h.revisions[i]) :
                        s[i][f] = h.revisions[i][f]
                 /\ s[i]["revision_start"] = h.revision_start[i]
                 /\ ~IsOpen(h, i)
                        => s[i]["revision_end"] = h.revision_end[i]

\* a history with a closed and an open revision, one of them with a blank
\* attribute and one with a non-blank attribute
C12_Witness ==
    \E k \in DOMAIN rev_history_d :
        LET h == rev_history_d[k] IN
        /\ Len(h.revisions) >= 2
        /\ ~IsOpen(h, 1)
        /\ LastOpen(h)
        /\ \E i \in 1..Len(h.revisions) : \E f \in FieldSet(DataClass) :
              h.revisions[i][f] = ""
        /\ \E i \in 1..Len(h.revisions) : \E f \in FieldSet(DataClass) :
              h.revisions[i][f] # ""

\* C13: CFBase.update(other) on the current revision of a key raises
\* ValueError and leaves every attribute of self as it was if an identity
\* attribute of other differs; otherwise it does not raise, keeps the
\* identity attributes and sets the mutable attributes to other's.
C13_UpdateRejects ==
    \A k \in DOMAIN rev_history_d : \A other \in Records(DataClass) :
        LET self == Last(rev_history_d[k].revisions)
            res == CFBase_update(DataClass, self, other)
        IN IF IdentityDiffers(DataClass, self, other)
           THEN res.raised /\ res.self = self
           ELSE /\ ~res.raised
                /\ \A f \in IdentityFields(DataClass) : res.self[f] = self[f]
                /\ \A f \in MutableFields(DataClass) : res.self[f] = other[f]

\* a current revision and a record that differ in an identity attribute and
\* in a mutable attribute, and a record that differs in a mutable attribute
\* only
C13_Witness ==
    \E k \in DOMAIN rev_history_d : \E o1, o2 \in Records(DataClass) :
        LET self == Last(rev_history_d[k].revisions) IN
        /\ IdentityDiffers(DataClass, self, o1)
        /\ \E f \in MutableFields(DataClass) : self[f] # o1[f]
        /\ ~IdentityDiffers(DataClass, self, o2)
        /\ \E f \in MutableFields(DataClass) : self[f] # o2[f]

\* the positions of the entries of the table read last that hold key k
Occurrences(k) == {i \in 1..Len(root) : root[i].id = k}

\* i < j are two reads of the same key with no read of it in between
Consecutive(i, j) ==
    /\ i < j
    /\ root[i].id = root[j].id
    /\ \A m \in (i + 1)..(j - 1) : root[m].id # root[i].id

\* C14: when process() reads a key twice in one table and the two records
\* differ in any attribute, identity or mutable, the later record is the one
\* handed to dict_update and a warning naming the key is emitted.
C14_DuplicateWarned ==
    last_op = "table" =>
        \A i, j \in 1..Len(root) :
            (Consecutive(i, j) /\ root[i].val # root[j].val) =>
                /\ <<"multiple", root[i].id>> \in warned
                /\ LET n == CHOOSE m \in Occurrences(root[i].id) :
                               \A o \in Occurrences(root[i].id) : o <= m
                   IN update_d[root[i].id] = root[n].val

\* C15: a key that appears for the first time in the head snapshot makes
\* dict_update emit a warning that names the key and says the modification
\* was made in 'current', and gets a history with one open revision; a key
\* that appears for the first time in a numbered release gets no such warning.
C15_NewKeyWarning ==
    [][DictUpdateStep =>
        /\ \A k \in DOMAIN update_d' \ DOMAIN rev_history_d :
              /\ update_version' = CURRENT_V <=> <<"current", k>> \in warned'
              /\ rev_history_d'[k].revisions = <<update_d'[k]>>
              /\ rev_history_d'[k].revision_start = <<update_version'>>
              /\ rev_history_d'[k].revision_end = <<UNINIT_V>>
        /\ update_version' # CURRENT_V =>
              \A w \in warned' : w[1] # "current"]_vars

C15_Witness ==
    /\ last_op = "current"
    /\ \E k \in DOMAIN rev_history_d :
          /\ <<"current", k>> \in warned
          /\ rev_history_d[k].revision_start = <<CURRENT_V>>
    /\ \E k \in DOMAIN rev_history_d :
          /\ <<"current", k>> \notin warned
          /\ Len(rev_history_d[k].revisions) = 1

IsSortedKeys(o) == \A i, j \in 1..Len(o) : i < j => KeyLess(o[i], o[j])

\* C16: after the final pass of process() no history holds a revision whose
\* record is empty, no history has zero revisions, a key is missing from the
\* map exactly when it was never observed or every revision it held was
\* empty, and the keys iterate in ascending order.
C16_FinalPass ==
    [][last_op' = "finalize" =>
        /\ \A k \in DOMAIN rev_history_d' :
              LET h == rev_history_d'[k]
              IN /\ Len(h.revisions) > 0
                 /\ \A i \in 1..Len(h.revisions) :
                        ~CFBase_is_empty(DataClass, h.revisions[i])
        /\ \A k \in Keys :
              k \notin DOMAIN rev_history_d' <=>
                  \/ k \notin DOMAIN rev_history_d
                  \/ \A i \in 1..Len(rev_history_d[k].revisions) :
                        CFBase_is_empty(DataClass, rev_history_d[k].revisions[i])
        /\ {key_order'[i] : i \in 1..Len(key_order')} = DOMAIN rev_history_d'
        /\ Len(key_order') = Cardinality(DOMAIN rev_history_d')
        /\ IsSortedKeys(key_order')]_vars

\* the state that the final pass acts on: the keys were inserted in
\* descending order, k2 holds empty revisions only and k1 holds an empty
\* revision and a non-empty one
C16_Witness ==
    /\ pc = "current"
    /\ key_order = <<"k2", "k1">>
    /\ \A i \in 1..Len(rev_history_d["k2"].revisions) :
          CFBase_is_empty(DataClass, rev_history_d["k2"].revisions[i])
    /\ \E i, j \in 1..Len(rev_history_d["k1"].revisions) :
          /\ CFBase_is_empty(DataClass, rev_history_d["k1"].revisions[i])
          /\ ~CFBase_is_empty(DataClass, rev_history_d["k1"].revisions[j])

\* the (record, start, end) triples of a history
Triples(h) ==
    [i \in 1..Len(h.revisions) |->
        <<h.revisions[i], h.revision_start[i], h.revision_end[i]>>]

NotEmptyTriple(t) == ~CFBase_is_empty(DataClass, t[1])

\* C17: remove_empty_revisions removes exactly the revisions whose record is
\* empty: the surviving (record, start, end) triples are the non-empty ones
\* in their original order with unchanged start and end, and the three lists
\* have equal length afterwards.
C17_PruneExact ==
    \A k \in DOMAIN rev_history_d :
        LET h == rev_history_d[k]
            r == remove_empty_revisions(DataClass, h)
        IN /\ Len(r.revision_start) = Len(r.revisions)
           /\ Len(r.revision_end) = Len(r.revisions)
           /\ Triples(r) = SelectSeq(Triples(h), NotEmptyTriple)

\* a history with an empty revision before a non-empty one, ready for the
\* final pass
C17_Witness ==
    /\ pc = "current"
    /\ \E k \in DOMAIN rev_history_d :
          LET h == rev_history_d[k]
          IN /\ Len(h.revisions) >= 2
             /\ CFBase_is_empty(DataClass, h.revisions[1])
             /\ ~CFBase_is_empty(DataClass, h.revisions[2])
             /\ Len(remove_empty_revisions(DataClass, h).revisions)
                    = Len(h.revisions) - 1

\* the dates asked for: from the dummy date to after every stored date
QueryDates == DummyDate..(MaxDate + 1)

\* the positions of _d whose date is not after dt
NotAfter(dt) == {i \in 1..Len(rev_dates) : rev_dates[i][2] <= dt}

\* C18: for a non-empty date list whose dates are non-decreasing in
\* insertion order, version_from_date(d) returns the release inserted last
\* among those dated d or earlier, and the release inserted first when d is
\* earlier than every date.
C18_LookupByDate ==
    (rev_dates # <<>> /\ IsNonDecreasing(dict_values(rev_dates))) =>
        \A dt \in QueryDates :
            LET res == version_from_date(rev_dates, dt)
            IN /\ res.raised = ""
               /\ res.result =
                     IF NotAfter(dt) = {}
                     THEN Some(rev_dates[1][1])
                     ELSE Some(rev_dates[CHOOSE i \in NotAfter(dt) :
                                  \A j \in NotAfter(dt) : j <= i][1])

\* releases 1 and 2 with dates 1 and 3: the date between them gives 1, an
\* earlier date gives 1 and a later one gives 2
C18_Witness ==
    /\ rev_dates = <<<<"1", 1>>, <<"2", 3>>>>
    /\ version_from_date(rev_dates, 2).result = Some("1")
    /\ version_from_date(rev_dates, 0).result = Some("1")
    /\ version_from_date(rev_dates, 3).result = Some("2")

\* C19: version_from_date raises ValueError and returns no release whenever
\* the dates in insertion order are not non-decreasing, and never raises it
\* when they are; equal dates on successive releases are accepted.
C19_UnsortedRaises ==
    \A dt \in QueryDates :
        LET res == version_from_date(rev_dates, dt)
        IN /\ res.raised = "ValueError"
                 <=> ~IsNonDecreasing(dict_values(rev_dates))
           /\ res.raised = "ValueError" => res.result = None

\* three releases whose dates go down at the end, after two equal dates
C19_Witness ==
    /\ Len(rev_dates) = 3
    /\ rev_dates[1][2] = rev_dates[2][2]
    /\ rev_dates[3][2] < rev_dates[2][2]
    /\ version_from_date(rev_dates, rev_dates[2][2]).raised = "ValueError"
    /\ version_from_date(SubSeq(rev_dates, 1, 2), rev_dates[2][2]).result
           = Some(rev_dates[2][1])

\* C20: when add_modified_date_from_xml finds no date for a release it
\* stores the dummy date 1900-01-01 and warns, and afterwards
\* version_from_date returns a release for every date asked for, whichever
\* position the undated release has in the sequence of releases.
C20_FallbackKeepsLookup ==
    (last_op = "add_date" /\ warned # {}) =>
        /\ Last(rev_dates)[2] = DummyDate
        /\ <<"no date", Last(rev_dates)[1]>> \in warned
        /\ \A dt \in QueryDates :
              LET res == version_from_date(rev_dates, dt)
              IN res.raised = "" /\ res.result # None

\* C23: after ingesting snapshots at strictly increasing numbered releases,
\* filter_by_version(r) on the history of a key returns a record exactly
\* when the key was in the snapshot of release r, and that record has the
\* identity attributes observed at r; stated for the release ingested last.
C23_PointInTime ==
    last_op \in {"numbered", "again"} =>
        \A k \in DOMAIN rev_history_d :
            LET got == filter_by_version(rev_history_d[k], update_version)
            IN /\ got # None <=> k \in DOMAIN update_d
               /\ (got # None /\ k \in DOMAIN update_d) =>
                     ~IdentityDiffers(DataClass, got[1], update_d[k])

\* C24: once a revision has a concrete end, no later call of dict_update
\* changes its record, its start or its end.
C24_ClosedImmutable ==
    [][DictUpdateStep =>
        \A k \in DOMAIN rev_history_d :
            \A i \in 1..Len(rev_history_d[k].revisions) :
                ~IsOpen(rev_history_d[k], i) =>
                    /\ i <= Len(rev_history_d'[k].revisions)
                    /\ Triples(rev_history_d'[k])[i]
                          = Triples(rev_history_d[k])[i]]_vars

\* C25: after any sequence of snapshots at strictly increasing numbered
\* releases the three lists of every history have equal length, every closed
\* revision has end >= start, and the end of revision i is less than the
\* start of revision i+1.
C25_RangesWellFormed ==
    \A k \in DOMAIN rev_history_d :
        LET h == rev_history_d[k]
        IN /\ Len(h.revision_start) = Len(h.revisions)
           /\ Len(h.revision_end) = Len(h.revisions)
           /\ \A i \in 1..Len(h.revisions) :
                 ~IsOpen(h, i) => h.revision_end[i] >= h.revision_start[i]
           /\ \A i \in 1..(Len(h.revisions) - 1) :
                 h.revision_end[i] < h.revision_start[i + 1]

\* a history with a closed revision of one release, a gap and a later
\* revision
C25_Witness ==
    \E k \in DOMAIN rev_history_d :
        LET h == rev_history_d[k]
        IN /\ Len(h.revisions) >= 2
           /\ h.revision_end[1] = h.revision_start[1]
           /\ h.revision_start[2] > h.revision_end[1] + 1

\* C26: a head snapshot with the keys and attribute values of the latest
\* numbered release, ingested with release _CURRENT_V, adds no revision,
\* sets no end, changes no attribute and emits no warning.
C26_IdenticalHead ==
    [][(last_op' = "current" /\ update_version >= 1 /\ update_d' = update_d)
        => /\ rev_history_d' = rev_history_d
           /\ warned' = {}]_vars

\* the head snapshot was ingested after a release that retired k1 and kept
\* k2: nothing was warned about and k1 keeps its end
C26_Witness ==
    /\ last_op = "current"
    /\ warned = {}
    /\ DOMAIN rev_history_d = {"k1", "k2"}
    /\ DOMAIN update_d = {"k2"}
    /\ ~LastOpen(rev_history_d["k1"])
    /\ LastOpen(rev_history_d["k2"])
    /\ Last(rev_history_d["k2"].revisions) = update_d["k2"]
    /\ Last(rev_history_d["k2"].revision_start) >= 1

\* C21: if process() fails for any of the six tables, no output file of the
\* run has been written, the files of the tables processed before the
\* failing one included.
C21_NoPartialOutput ==
    main_pc = "aborted" => written = <<>>

\* C22: process() calls dict_update once per discovered release, the
\* numbered releases in strictly increasing integer order and the head
\* last; v_cleanup returns that order and the largest numbered release as
\* max_version.
C22_IngestionOrder ==
    (last_op = "version" /\ pc = "current") =>
        LET r == v_cleanup(version_dirs)
            n == Len(calls)
        IN /\ n = Len(version_dirs)
           /\ calls[n] = CURRENT_V
           /\ \A i \in 1..(n - 1) : calls[i] >= 1
           /\ \A i \in 1..(n - 2) : calls[i] < calls[i + 1]
           /\ r.version_strs
                 = [i \in 1..n |-> IF i = n THEN "current"
                                   ELSE ToString(calls[i])]
           /\ r.max_version = calls[n - 1]

\* C27: strip_comments terminates for every line, a line with an odd number
\* of double quotes included.  Once j has reached the number of parts,
\* s_counts[:j] is the whole list for every larger j, so the loop ends
\* exactly when its test is never true with j at or beyond that number.
C27_LoopEnds ==
    (strip_pc = "while" /\ strip_j >= Len(s_counts_of(strip_line))) =>
        sum_slice(s_counts_of(strip_line), strip_j) % 2 = 0
====
